---- MODULE Spec2Model ----
(***************************************************************************)
(* Shelly Cloud status logger (shelly_cloud_logger.py).                    *)
(*                                                                         *)
(* Three specifications share the variables below:                         *)
(*   SpecParse   parse_device_status and the success point of              *)
(*               log_device_status, applied to bounded raw payloads;       *)
(*   SpecConfig  the group flattening of load_config and the bucket a      *)
(*               resolved device is written to;                            *)
(*   Spec        main(): the initial poll, the schedule loop, the poll     *)
(*               cycle device by device, KeyboardInterrupt and close().    *)
(*                                                                         *)
(* JSON / Python values are tagged records: [t |-> tag, v |-> value].      *)
(* Floats are modelled by integers; time is counted in tenths of a second. *)
(***************************************************************************)
EXTENDS Integers, Sequences, FiniteSets, TLC

VARIABLES
    pc,             \* position of the main thread (or phase of the pure specs)
    step,           \* position inside the body of the loop of poll_all_devices
    idx,            \* 1-based index of the device being polled
    devices,        \* self.devices / config['devices'] after load_config
    rawConfig,      \* the configuration document as read from the file
    config,         \* the configuration load_config returns
    device_status,  \* value returned by get_device_status_v2
    curDevice,      \* the device dict handed to parse_device_status
    parsed,         \* value of parse_device_status
    point,          \* the last point handed to write_api.write (or built)
    pointBucket,    \* the bucket that point was handed with
    handed,         \* number of write calls made in the current device step
    fetchLog,       \* ids fetched in the current cycle, in call order
    sleeps,         \* spacing sleeps taken in the current cycle
    untilNext,      \* time until the schedule job's next_run (0: due)
    sinceFetch,     \* time since the last fetch call began, capped at Spacing
    sinceSchedEnd,  \* time since the last scheduled cycle ended, capped at Interval
    startGap,       \* sinceSchedEnd at the start of the latest scheduled cycle
    inFlight,       \* poll_all_devices frames currently active
    cycleTime,      \* time spent in the current or latest cycle, capped at Interval
    lastLong,       \* the latest scheduled cycle lasted at least Interval
    fetchGap,       \* sinceFetch at the moment of the latest fetch call
    closed,         \* InfluxDBClient.close() has been called
    closedMidStep,  \* close() was called while a device step was under way
    exitHow         \* how the process left main()

cfgVars == << rawConfig, config >>
cycleVars == << step, idx, handed, fetchLog, sleeps, inFlight >>
timeVars == << untilNext, sinceFetch, sinceSchedEnd, startGap, cycleTime,
               lastLong, fetchGap >>
exitVars == << closed, closedMidStep, exitHow >>

vars == << pc, devices, cfgVars, device_status, curDevice, parsed, point,
           pointBucket, cycleVars, timeVars, exitVars >>

----------------------------------------------------------------------------
(* Bounds of the model *)

MaxVal == 1          \* numeric readings range over 0..MaxVal
MaxChannel == 1      \* channels range over 0..MaxChannel
MaxGroups == 2       \* groups in a configuration
MaxDevices == 3      \* devices in a configuration, over all groups and the flat list
NumDevices == 6      \* devices polled by the process specification
PollInterval == 1    \* config['poll_interval'], in minutes

(* Program constants, in tenths of a second *)
Spacing == 11        \* time.sleep(1.1)
FetchTimeout == 100  \* requests.post(..., timeout=10)
LoopSleep == 300     \* time.sleep(30)
TicksPerMinute == 600

Interval == PollInterval * TicksPerMinute

----------------------------------------------------------------------------
(* JSON / Python values *)

Null == [t |-> "null"]
Num(n) == [t |-> "num", v |-> n]
Bool(b) == [t |-> "bool", v |-> b]
Str(s) == [t |-> "str", v |-> s]
List(s) == [t |-> "list", v |-> s]
Dict(f) == [t |-> "dict", v |-> f]
EmptyDict == Dict([k \in {} |-> Null])

\* Python truthiness: `if x`, `not x`
Truthy(x) ==
    CASE x.t = "null" -> FALSE
      [] x.t = "num"  -> x.v # 0
      [] x.t = "bool" -> x.v
      [] x.t = "str"  -> x.v # ""
      [] x.t = "list" -> Len(x.v) > 0
      [] x.t = "dict" -> DOMAIN x.v # {}

\* d.get(k, dflt) on a dict d
Get(d, k, dflt) == IF k \in DOMAIN d.v THEN d.v[k] ELSE dflt

\* `k in x`: raises TypeError unless x is a container or a string
SupportsIn(x) == x.t \in {"dict", "list", "str"}
\* the lists and strings of the payloads never hold a capability key
In(k, x) == x.t = "dict" /\ k \in DOMAIN x.v

\* float(x): defined on numbers and booleans; raises on None, dicts, lists
\* and on the (non-numeric) strings of the payloads
CanFloat(x) == x.t \in {"num", "bool"}
Float(x) == IF x.t = "bool" THEN Num(IF x.v THEN 1 ELSE 0) ELSE Num(x.v)

\* x == 1 in Python (True == 1 holds)
EqualsOne(x) == (x.t = "num" /\ x.v = 1) \/ (x.t = "bool" /\ x.v)

----------------------------------------------------------------------------
(* parse_device_status *)

ParseNone == [kind |-> "none"]
ParseRaised == [kind |-> "raise"]
Metric(online, output, power, energy, voltage, current, temperature) ==
    [kind |-> "ok", online |-> online, output |-> output, power |-> power,
     energy |-> energy, voltage |-> voltage, current |-> current,
     temperature |-> temperature]

\* the initial `result` dict, lines 90-98
DefaultMetric(online) ==
    Metric(online, Bool(FALSE), Num(0), Num(0), Null, Null, Null)

\* device_config.get('channel', 0)
ChannelOf(device_config) ==
    IF "channel" \in DOMAIN device_config THEN device_config.channel ELSE 0

\* f"switch:{channel}"
ChannelKey(channel) == "switch:" \o ToString(channel)

\* float(d[k]) if d.get(k) is not None else None
OptionalFloatRaises(d, k) ==
    Get(d, k, Null).t # "null" /\ ~CanFloat(d.v[k])
OptionalFloat(d, k) ==
    IF Get(d, k, Null).t # "null" THEN Float(d.v[k]) ELSE Null

\* the `switch:<channel>` branch, lines 109-128
SwitchBranch(online, switch_data) ==
    IF switch_data.t # "dict" THEN ParseRaised
    ELSE
    LET output == Get(switch_data, "output", Bool(FALSE))
        apower == Get(switch_data, "apower", Null)
        aenergy == Get(switch_data, "aenergy", EmptyDict)
        total_energy == Get(aenergy, "total", Null)
        temp_data == Get(switch_data, "temperature", EmptyDict)
        tC == Get(temp_data, "tC", Null)
    IN  IF apower.t # "null" /\ ~CanFloat(apower) THEN ParseRaised
        ELSE IF OptionalFloatRaises(switch_data, "voltage") THEN ParseRaised
        ELSE IF OptionalFloatRaises(switch_data, "current") THEN ParseRaised
        ELSE IF aenergy.t # "dict" THEN ParseRaised
        ELSE IF total_energy.t # "null" /\ ~CanFloat(total_energy) THEN ParseRaised
        ELSE IF Truthy(temp_data) /\ temp_data.t # "dict" THEN ParseRaised
        ELSE IF Truthy(temp_data) /\ tC.t # "null" /\ ~CanFloat(tC) THEN ParseRaised
        ELSE Metric(online,
                    output,
                    IF apower.t # "null" THEN Float(apower) ELSE Num(0),
                    IF total_energy.t # "null" THEN Float(total_energy) ELSE Num(0),
                    OptionalFloat(switch_data, "voltage"),
                    OptionalFloat(switch_data, "current"),
                    IF Truthy(temp_data) /\ tC.t # "null" THEN Float(tC) ELSE Null)

\* len(x): raises TypeError unless x is sized
Sized(x) == x.t \in {"list", "dict", "str"}
Size(x) ==
    CASE x.t = "list" -> Len(x.v)
      [] x.t = "dict" -> Cardinality(DOMAIN x.v)
      [] x.t = "str"  -> Len(x.v)

\* x[channel].get(...) for channel < len(x): only an element of a list can be
\* a dict (a dict keyed by strings raises KeyError, a character has no .get)
ItemIsDict(x, channel) == x.t = "list" /\ x.v[channel + 1].t = "dict"

\* the Gen 1 `relays` branch, lines 131-146
RelaysBranch(online, status, channel) ==
    LET relays == Get(status, "relays", List(<<>>))
        meters == Get(status, "meters", List(<<>>))
        hasRelay == channel < Size(relays)
        hasMeter == channel < Size(meters)
        relay_data == relays.v[channel + 1]
        meter_data == meters.v[channel + 1]
        mpower == Get(meter_data, "power", Num(0))
        mtotal == Get(meter_data, "total", Num(0))
        hasTmp == "tmp" \in DOMAIN status.v
        tmp == status.v["tmp"]
        tC == Get(tmp, "tC", Null)
    IN  IF ~Sized(relays) THEN ParseRaised
        ELSE IF hasRelay /\ ~ItemIsDict(relays, channel) THEN ParseRaised
        ELSE IF ~Sized(meters) THEN ParseRaised
        ELSE IF hasMeter /\ ~ItemIsDict(meters, channel) THEN ParseRaised
        ELSE IF hasMeter /\ ~CanFloat(mpower) THEN ParseRaised
        ELSE IF hasMeter /\ ~CanFloat(mtotal) THEN ParseRaised
        ELSE IF hasTmp /\ tmp.t # "dict" THEN ParseRaised
        ELSE IF hasTmp /\ tC.t # "null" /\ ~CanFloat(tC) THEN ParseRaised
        ELSE Metric(online,
                    IF hasRelay THEN Get(relay_data, "ison", Bool(FALSE))
                                ELSE Bool(FALSE),
                    IF hasMeter THEN Float(mpower) ELSE Num(0),
                    IF hasMeter THEN Float(mtotal) ELSE Num(0),
                    Null,
                    Null,
                    IF hasTmp /\ tC.t # "null" THEN Float(tC) ELSE Null)

\* the `cover:0` branch, lines 149-153
CoverBranch(online, cover_data) ==
    IF cover_data.t # "dict" THEN ParseRaised
    ELSE
    LET state == Get(cover_data, "state", Str("stopped"))
        apower == Get(cover_data, "apower", Num(0))
    IN  IF ~CanFloat(apower) THEN ParseRaised
        ELSE Metric(online, Bool(state.t = "str" /\ state.v = "open"),
                    Float(apower), Num(0), Null, Null, Null)

\* the `light:0` branch, lines 156-158
LightBranch(online, light_data) ==
    IF light_data.t # "dict" THEN ParseRaised
    ELSE Metric(online, Get(light_data, "output", Bool(FALSE)),
                Num(0), Num(0), Null, Null, Null)

\* parse_device_status with the cover probe moved ahead of the switch probe
ParseDeviceStatusCoverFirst(status_value, device_config) ==
    IF ~Truthy(status_value) THEN ParseNone
    ELSE IF status_value.t # "dict" THEN ParseRaised
    ELSE
    LET online == EqualsOne(Get(status_value, "online", Num(0)))
        status == Get(status_value, "status", EmptyDict)
        channel == ChannelOf(device_config)
        channel_key == ChannelKey(channel)
    IN  IF ~SupportsIn(status) THEN ParseRaised
        ELSE IF In("cover:0", status)
            THEN CoverBranch(online, status.v["cover:0"])
        ELSE IF In(channel_key, status)
            THEN SwitchBranch(online, status.v[channel_key])
        ELSE IF In("relays", status)
            THEN RelaysBranch(online, status, channel)
        ELSE IF In("light:0", status)
            THEN LightBranch(online, status.v["light:0"])
        ELSE DefaultMetric(online)

\* parse_device_status, lines 82-160
ParseDeviceStatus(status_value, device_config) ==
    IF ~Truthy(status_value) THEN ParseNone
    ELSE IF status_value.t # "dict" THEN ParseRaised
    ELSE
    LET online == EqualsOne(Get(status_value, "online", Num(0)))
        status == Get(status_value, "status", EmptyDict)
        channel == ChannelOf(device_config)
        channel_key == ChannelKey(channel)
    IN  IF ~SupportsIn(status) THEN ParseRaised
        ELSE IF In(channel_key, status)
            THEN SwitchBranch(online, status.v[channel_key])
        ELSE IF In("relays", status)
            THEN RelaysBranch(online, status, channel)
        ELSE IF In("cover:0", status)
            THEN CoverBranch(online, status.v["cover:0"])
        ELSE IF In("light:0", status)
            THEN LightBranch(online, status.v["light:0"])
        ELSE DefaultMetric(online)

----------------------------------------------------------------------------
(* log_device_status: the points *)

NoPoint == [kind |-> "none"]

\* device.get('type', 'unknown')
TypeOf(device) == IF "type" \in DOMAIN device THEN device.type ELSE "unknown"

Tags(device) ==
    [device |-> device.name, device_id |-> device.id, type |-> TypeOf(device)]

\* the offline point, lines 175-181
OfflinePoint(device) ==
    [kind |-> "point", measurement |-> "shelly_status", tags |-> Tags(device),
     fields |-> [online |-> Bool(FALSE), cloud_accessible |-> Bool(FALSE)]]

\* the optional field guarded by truthiness (`if status[k]:`) instead
OptionalFieldTruthy(status, k) ==
    IF Truthy(status[k]) THEN k :> status[k] ELSE [x \in {} |-> Null]

\* `if status[k] is not None: point.field(k, status[k])`, lines 206-211
OptionalField(status, k) ==
    IF status[k].t # "null" THEN k :> status[k] ELSE [x \in {} |-> Null]

\* the success point, lines 194-213
SuccessPoint(device, status) ==
    [kind |-> "point", measurement |-> "shelly_status", tags |-> Tags(device),
     fields |-> [online |-> Bool(status.online),
                 cloud_accessible |-> Bool(TRUE),
                 output |-> status.output,
                 output_int |-> Num(IF Truthy(status.output) THEN 1 ELSE 0),
                 power |-> status.power,
                 energy |-> status.energy]
                @@ OptionalField(status, "voltage")
                @@ OptionalField(status, "current")
                @@ OptionalField(status, "temperature")]

----------------------------------------------------------------------------
(* Raw payloads: the element data[0] of the cloud's answer *)

Vals == 0 .. MaxVal
Nums == { Num(n) : n \in Vals }
Channels == 0 .. MaxChannel
NoFields == [k \in {} |-> Null]

\* the functions that give some of `keys` a value of opts[key]
RECURSIVE DictFns(_, _)
DictFns(keys, opts) ==
    IF keys = <<>> THEN { NoFields }
    ELSE LET rest == DictFns(Tail(keys), opts)
         IN  rest \cup { (Head(keys) :> v) @@ r : v \in opts[Head(keys)], r \in rest }

\* the lists of at most maxLen elements: `sample`s closed by one of `variants`
ListsEndingIn(variants, sample, maxLen) ==
    { List(<<>>) } \cup
    { List([i \in 1 .. n |-> IF i = n THEN v ELSE sample]) :
        n \in 1 .. maxLen, v \in variants }

Nested(k) == { EmptyDict, Dict(k :> Null) } \cup { Dict(k :> n) : n \in Nums }

\* switch data whose sub-fields are absent, null or of the documented type
SwitchDatas ==
    { Dict(f) : f \in DictFns(
        << "output", "apower", "voltage", "current", "aenergy", "temperature" >>,
        [output      |-> { Bool(TRUE), Bool(FALSE) },
         apower      |-> { Null } \cup Nums,
         voltage     |-> { Null } \cup Nums,
         current     |-> { Null } \cup Nums,
         aenergy     |-> { Null } \cup Nested("total"),
         temperature |-> { Null } \cup Nested("tC")]) }

RelayDatas == { EmptyDict, Dict([ison |-> Bool(TRUE)]), Dict([ison |-> Bool(FALSE)]) }
MeterDatas ==
    { Dict(f) : f \in DictFns(<< "power", "total" >>,
        [power |-> { Null } \cup Nums, total |-> { Null } \cup Nums]) }
CoverDatas ==
    { Dict(f) : f \in DictFns(<< "state", "apower" >>,
        [state  |-> { Str("open"), Str("closed"), Str("stopped") },
         apower |-> { Null } \cup Nums]) }

Payload(online, status) == Dict([online |-> online, status |-> status])

\* one capability shape, every sub-field absent, null or well typed
SwitchPayloads ==
    { Payload(Num(1), Dict(ChannelKey(0) :> sd)) : sd \in SwitchDatas }
RelayPayloads ==
    { Payload(Num(1), Dict(("relays" :> r) @@ f)) :
        r \in ListsEndingIn(RelayDatas, EmptyDict, MaxChannel + 1),
        f \in DictFns(<< "meters", "tmp" >>,
            [meters |-> ListsEndingIn(MeterDatas,
                                      Dict([power |-> Num(MaxVal), total |-> Num(MaxVal)]),
                                      MaxChannel + 1),
             tmp    |-> Nested("tC")]) }
CoverPayloads ==
    { Payload(Num(1), Dict("cover:0" :> cd)) : cd \in CoverDatas }
NullablePayloads == SwitchPayloads \cup RelayPayloads \cup CoverPayloads

\* several capability shapes at once, each with readings of its own
SampleSwitch(c) ==
    Dict([output |-> Bool(TRUE), apower |-> Num(MaxVal), voltage |-> Num(0),
          aenergy |-> Dict([total |-> Num(MaxVal)]),
          temperature |-> Dict([tC |-> Num(c)])])
ShapeKeys ==
    [c \in 1 .. MaxChannel + 1 |-> ChannelKey(c - 1)]
        \o << "relays", "meters", "tmp", "cover:0", "light:0" >>
ShapeSamples ==
    [k \in { ShapeKeys[i] : i \in 1 .. Len(ShapeKeys) } |->
        CASE k = "relays"  -> { List([i \in 1 .. MaxChannel + 1 |->
                                        Dict([ison |-> Bool(TRUE)])]) }
          [] k = "meters"  -> { List([i \in 1 .. MaxChannel + 1 |->
                                        Dict([power |-> Num(i), total |-> Num(i)])]) }
          [] k = "tmp"     -> { Dict([tC |-> Num(MaxVal + 1)]) }
          [] k = "cover:0" -> { Dict([state |-> Str("open"), apower |-> Num(MaxVal + 2)]) }
          [] k = "light:0" -> { Dict([output |-> Bool(TRUE)]) }
          [] OTHER         -> { SampleSwitch(c) : c \in { d \in Channels : ChannelKey(d) = k } }]
OnlineValues == { Num(0), Num(1), Num(2), Bool(TRUE), Null }
MixedPayloads ==
    { Dict(top @@ ("status" :> Dict(f))) :
        top \in DictFns(<< "online" >>, [online |-> OnlineValues]),
        f \in DictFns(ShapeKeys, ShapeSamples) }

\* elements that are empty or not of the expected shape
MalformedPayloads ==
    { EmptyDict, List(<<>>), Num(0), Str(""), List(<< Num(1) >>), Str("error"),
      Dict([online |-> Num(1)]),
      Payload(Num(1), Null), Payload(Num(1), Num(MaxVal)),
      Payload(Num(1), List(<<>>)), Payload(Num(1), Str("error")),
      Payload(Num(1), Dict(ChannelKey(0) :> Null)),
      Payload(Num(1), Dict([relays |-> Null])),
      Payload(Num(1), Dict([relays |-> List(<<>>), meters |-> Null])),
      Payload(Num(1), Dict([relays |-> List(<<>>), tmp |-> Null])),
      Payload(Num(1), Dict("cover:0" :> Null)),
      Payload(Num(1), Dict("light:0" :> Null)) }

BaseDevice == [id |-> "shelly-1", name |-> "Shelly 1"]
ChannelDevices == { BaseDevice @@ [channel |-> c] : c \in Channels }

ParseInputs ==
    (NullablePayloads \X ChannelDevices)
    \cup ((MixedPayloads \cup MalformedPayloads) \X ({ BaseDevice } \cup ChannelDevices))

----------------------------------------------------------------------------
(* SpecParse: parse_device_status and the success point on every input *)

Idle ==
    /\ devices = <<>> /\ rawConfig = <<>> /\ config = <<>>
    /\ pointBucket = ""
    /\ step = "-" /\ idx = 0 /\ handed = 0 /\ fetchLog = <<>> /\ sleeps = 0
    /\ inFlight = 0
    /\ untilNext = 0 /\ sinceFetch = 0 /\ sinceSchedEnd = 0 /\ startGap = 0
    /\ cycleTime = 0 /\ lastLong = FALSE /\ fetchGap = 0
    /\ closed = FALSE /\ closedMidStep = FALSE /\ exitHow = "-"

InitParse ==
    /\ pc = "parse"
    /\ \E in \in ParseInputs : device_status = in[1] /\ curDevice = in[2]
    /\ parsed = ParseNone
    /\ point = NoPoint
    /\ Idle

\* status = self.parse_device_status(device_status, device), line 187
ParseStep ==
    /\ pc = "parse"
    /\ parsed' = ParseDeviceStatus(device_status, curDevice)
    /\ pc' = IF parsed'.kind = "ok" THEN "build_point" ELSE "parse_done"
    /\ UNCHANGED << devices, cfgVars, device_status, curDevice, point,
                    pointBucket, cycleVars, timeVars, exitVars >>

\* the point of lines 194-213
PointStep ==
    /\ pc = "build_point"
    /\ point' = SuccessPoint(curDevice, parsed)
    /\ pc' = "parse_done"
    /\ UNCHANGED << devices, cfgVars, device_status, curDevice, parsed,
                    pointBucket, cycleVars, timeVars, exitVars >>

NextParse == ParseStep \/ PointStep

SpecParse == InitParse /\ [][NextParse]_vars

----------------------------------------------------------------------------
(* load_config: groups flattened into config['devices'] *)

DefaultBucket == "shelly_status"

\* `if x.get(k)` for a list-valued key of a configuration dict
HasItems(d, k) == k \in DOMAIN d /\ Len(d[k]) > 0

\* dev_config = device.copy(); if group_bucket: dev_config['bucket'] = group_bucket
MemberConfig(group, device) ==
    IF "bucket" \in DOMAIN group /\ group.bucket # ""
    THEN ("bucket" :> group.bucket) @@ device
    ELSE device

\* for device in group.get('devices', []): ... append(dev_config)
MembersOf(group) ==
    IF "devices" \in DOMAIN group
    THEN [m \in 1 .. Len(group.devices) |-> MemberConfig(group, group.devices[m])]
    ELSE <<>>

\* for group in config['groups']: the appended members, in iteration order
RECURSIVE GroupMembers(_)
GroupMembers(groups) ==
    IF groups = <<>> THEN <<>>
    ELSE MembersOf(Head(groups)) \o GroupMembers(Tail(groups))

\* the flattening with the group members put ahead of the flat list
LoadConfigGroupsFirst(cfg) ==
    IF HasItems(cfg, "groups")
    THEN ("devices" :> (GroupMembers(cfg.groups)
                          \o (IF HasItems(cfg, "devices") THEN cfg.devices ELSE <<>>)))
         @@ cfg
    ELSE cfg

\* load_config, lines 277-291
LoadConfig(cfg) ==
    IF HasItems(cfg, "groups")
    THEN ("devices" :> ((IF HasItems(cfg, "devices") THEN cfg.devices ELSE <<>>)
                          \o GroupMembers(cfg.groups)))
         @@ cfg
    ELSE cfg

\* bucket = device.get('bucket', self.default_bucket), line 170
TargetBucket(device) ==
    IF "bucket" \in DOMAIN device THEN device.bucket ELSE DefaultBucket

----------------------------------------------------------------------------
(* Configuration documents: at most MaxGroups groups, MaxDevices devices *)

\* the device declared at place m of group g (g = 0: the flat list)
Declared(g, m, own) ==
    IF own THEN [id |-> << g, m >>, name |-> "shelly", bucket |-> "device-bucket"]
           ELSE [id |-> << g, m >>, name |-> "shelly"]

DeviceLists(g, n) ==
    { [m \in 1 .. n |-> Declared(g, m, m \in own)] : own \in SUBSET (1 .. n) }

GroupChoices(g, n) ==
    { b @@ [devices |-> ds] :
        b \in { NoFields, [bucket |-> ""], [bucket |-> "group-bucket"] },
        ds \in DeviceLists(g, n) }
    \cup (IF n = 0 THEN { NoFields, [bucket |-> "group-bucket"] } ELSE {})

RECURSIVE Product(_)
Product(sets) ==
    IF sets = <<>> THEN { <<>> }
    ELSE { << h >> \o t : h \in Head(sets), t \in Product(Tail(sets)) }

RECURSIVE Sum(_)
Sum(ns) == IF ns = <<>> THEN 0 ELSE Head(ns) + Sum(Tail(ns))

GroupSizes ==
    { ns \in UNION { [1 .. k -> 0 .. MaxDevices] : k \in 0 .. MaxGroups } :
        Sum(ns) <= MaxDevices }

\* the documents whose groups have the sizes ns
ConfigsOfSizes(ns) ==
    { g @@ f :
        g \in { [groups |-> gs] :
                  gs \in Product([i \in 1 .. Len(ns) |-> GroupChoices(i, ns[i])]) }
              \cup (IF ns = <<>> THEN { NoFields } ELSE {}),
        f \in { [devices |-> ds] :
                  ds \in UNION { DeviceLists(0, n) : n \in 0 .. MaxDevices - Sum(ns) } }
              \cup { NoFields } }

----------------------------------------------------------------------------
(* SpecConfig: load_config, the device check of main, the bucket of a write *)

IdleConfig ==
    /\ devices = <<>>
    /\ device_status = Null /\ curDevice = NoFields /\ parsed = ParseNone
    /\ point = NoPoint /\ pointBucket = ""
    /\ step = "-" /\ idx = 0 /\ handed = 0 /\ fetchLog = <<>> /\ sleeps = 0
    /\ inFlight = 0
    /\ untilNext = 0 /\ sinceFetch = 0 /\ sinceSchedEnd = 0 /\ startGap = 0
    /\ cycleTime = 0 /\ lastLong = FALSE /\ fetchGap = 0
    /\ closed = FALSE /\ closedMidStep = FALSE /\ exitHow = "-"

InitConfig ==
    /\ pc = "load_config"
    /\ \E ns \in GroupSizes : rawConfig \in ConfigsOfSizes(ns)
    /\ config = rawConfig
    /\ IdleConfig

\* config = load_config(), line 298
LoadConfigStep ==
    /\ pc = "load_config"
    /\ config' = LoadConfig(rawConfig)
    /\ pc' = "validate"
    /\ UNCHANGED << devices, rawConfig, device_status, curDevice, parsed,
                    point, pointBucket, cycleVars, timeVars, exitVars >>

\* `if not config.get('devices'): return`, lines 304-306, and
\* self.devices = config['devices'], line 42
ValidateStep ==
    /\ pc = "validate"
    /\ IF HasItems(config, "devices")
       THEN /\ devices' = config.devices
            /\ pc' = "configured"
            /\ exitHow' = exitHow
       ELSE /\ devices' = devices
            /\ pc' = "exited"
            /\ exitHow' = "no_devices"
    /\ UNCHANGED << cfgVars, device_status, curDevice, parsed, point,
                    pointBucket, cycleVars, timeVars, closed, closedMidStep >>

\* the bucket log_device_status writes a device's point to, line 170
RouteStep ==
    /\ pc = "configured"
    /\ \E i \in 1 .. Len(devices) :
          /\ idx' = i
          /\ curDevice' = devices[i]
          /\ pointBucket' = TargetBucket(devices[i])
    /\ pc' = "routed"
    /\ UNCHANGED << devices, cfgVars, device_status, parsed, point, step,
                    handed, fetchLog, sleeps, inFlight, timeVars, exitVars >>

NextConfig == LoadConfigStep \/ ValidateStep \/ RouteStep

SpecConfig == InitConfig /\ [][NextConfig]_vars

----------------------------------------------------------------------------
(* The polling process: main, poll_all_devices, log_device_status *)

PollDevices ==
    [i \in 1 .. NumDevices |->
        [id |-> "shelly-" \o ToString(i), name |-> "Shelly " \o ToString(i),
         channel |-> i % (MaxChannel + 1)]
        @@ (IF i % 2 = 0 THEN [bucket |-> "device-bucket"] ELSE NoFields)]

\* what one requests.post can come to, with the time it takes
GoodElement == Payload(Num(1), Dict(ChannelKey(0) :> SampleSwitch(0)))
NullPowerCover == Payload(Num(1), Dict("cover:0" :> Dict([apower |-> Null])))
Responses ==
    { [kind |-> "timeout", took |-> FetchTimeout],
      [kind |-> "connection_error", took |-> 0],
      [kind |-> "http", code |-> 500, data |-> List(<<>>), took |-> 0] }
    \cup { [kind |-> "http", code |-> 200, data |-> List(d), took |-> 0] :
             d \in { <<>>, << EmptyDict >>, << GoodElement >>, << NullPowerCover >> } }

\* get_device_status_v2, lines 44-80: data[0] of a non-empty 200 answer, else None
GetDeviceStatusV2(response) ==
    IF response.kind = "http" /\ response.code = 200 /\ Truthy(response.data)
    THEN response.data.v[1]
    ELSE Null

Min(a, b) == IF a < b THEN a ELSE b

\* the schedule job's next run, fixed-rate: one interval after the run missed
ScheduleNextRunFixedRate(until) == until + Interval

\* schedule's Job.run: after job_func returns, next_run = now + interval
ScheduleNextRun(until) == Interval

Polling == pc \in { "poll_initial", "poll_scheduled" }

\* a clock d tenths of a second later, saturating at cap
Later(clock, d, cap) == Min(cap, clock + d)

\* entry of poll_all_devices, lines 223-226 (the device list is never empty:
\* main returns at line 304 otherwise)
BeginCycle ==
    /\ idx' = 1
    /\ step' = "fetch"
    /\ handed' = 0
    /\ fetchLog' = <<>>
    /\ sleeps' = 0
    /\ inFlight' = inFlight + 1
    /\ cycleTime' = 0

\* the state main reaches at line 333: logger built, job scheduled
Init ==
    /\ pc = "start"
    /\ devices = PollDevices
    /\ rawConfig = <<>> /\ config = <<>>
    /\ device_status = Null /\ curDevice = NoFields /\ parsed = ParseNone
    /\ point = NoPoint /\ pointBucket = ""
    /\ step = "-" /\ idx = 0 /\ handed = 0 /\ fetchLog = <<>> /\ sleeps = 0
    /\ inFlight = 0
    /\ untilNext = Interval
    /\ sinceFetch = Spacing /\ fetchGap = Spacing
    /\ sinceSchedEnd = Interval /\ startGap = Interval
    /\ cycleTime = 0 /\ lastLong = FALSE
    /\ closed = FALSE /\ closedMidStep = FALSE /\ exitHow = "-"

\* status_logger.poll_all_devices(), line 335
InitialPoll ==
    /\ pc = "start"
    /\ pc' = "poll_initial"
    /\ BeginCycle
    /\ UNCHANGED << devices, cfgVars, device_status, curDevice, parsed, point,
                    pointBucket, untilNext, sinceFetch, sinceSchedEnd, startGap,
                    lastLong, fetchGap, exitVars >>

\* log_device_status up to the requests.post call, lines 164-168 and 57
FetchCall ==
    /\ Polling /\ step = "fetch"
    /\ curDevice' = devices[idx]
    /\ fetchLog' = Append(fetchLog, devices[idx].id)
    /\ fetchGap' = sinceFetch
    /\ sinceFetch' = 0
    /\ handed' = 0
    /\ parsed' = ParseNone
    /\ point' = NoPoint
    /\ step' = "fetching"
    /\ UNCHANGED << pc, devices, cfgVars, device_status, pointBucket, idx, sleeps,
                    inFlight, untilNext, sinceSchedEnd, startGap, cycleTime,
                    lastLong, exitVars >>

\* the answer, the time-out or the error of the request, lines 57-80
FetchReturn ==
    /\ Polling /\ step = "fetching"
    /\ \E response \in Responses :
          /\ device_status' = GetDeviceStatusV2(response)
          /\ untilNext' = untilNext - response.took
          /\ sinceFetch' = Later(sinceFetch, response.took, Spacing)
          /\ sinceSchedEnd' = Later(sinceSchedEnd, response.took, Interval)
          /\ cycleTime' = Later(cycleTime, response.took, Interval)
    /\ step' = "emit"
    /\ UNCHANGED << pc, devices, cfgVars, curDevice, parsed, point, pointBucket,
                    idx, handed, fetchLog, sleeps, inFlight, startGap, lastLong,
                    fetchGap, exitVars >>

\* an exception leaves log_device_status, poll_all_devices and main: the
\* handler of line 341 takes KeyboardInterrupt alone
Uncaught ==
    /\ pc' = "exited"
    /\ exitHow' = "exception"
    /\ UNCHANGED << step, closed, closedMidStep >>

\* log_device_status after a failed fetch, lines 172-184: the offline point,
\* written outside any try block
EmitOffline ==
    /\ Polling /\ step = "emit"
    /\ device_status.t = "null"
    /\ point' = OfflinePoint(curDevice)
    /\ pointBucket' = TargetBucket(curDevice)
    /\ handed' = handed + 1
    /\ \E writeOk \in BOOLEAN :
          IF writeOk THEN step' = "spacing" /\ UNCHANGED << pc, exitVars >>
                     ELSE Uncaught
    /\ UNCHANGED << devices, cfgVars, device_status, curDevice, parsed, idx,
                    fetchLog, sleeps, inFlight, timeVars >>

\* log_device_status after a fetch that returned an element, lines 186-221
EmitStatus ==
    /\ Polling /\ step = "emit"
    /\ device_status.t # "null"
    /\ parsed' = ParseDeviceStatus(device_status, curDevice)
    /\ CASE parsed'.kind = "raise" ->
                /\ Uncaught
                /\ UNCHANGED << point, pointBucket, handed >>
         [] parsed'.kind = "none" ->
                \* "Failed to parse status": return, nothing is written
                /\ step' = "spacing"
                /\ UNCHANGED << pc, point, pointBucket, handed, exitVars >>
         [] parsed'.kind = "ok" ->
                \* the write of lines 215-221: its error is caught and logged
                /\ point' = SuccessPoint(curDevice, parsed')
                /\ pointBucket' = TargetBucket(curDevice)
                /\ handed' = handed + 1
                /\ step' = "spacing"
                /\ UNCHANGED << pc, exitVars >>
    /\ UNCHANGED << devices, cfgVars, device_status, curDevice, idx, fetchLog,
                    sleeps, inFlight, timeVars >>

\* time.sleep(1.1), line 229, and the return of poll_all_devices after the
\* last device; schedule reschedules the job after a scheduled run
SpacingSleep ==
    /\ Polling /\ step = "spacing"
    /\ LET last == idx = Len(devices)
           endScheduled == last /\ pc = "poll_scheduled"
       IN  /\ sleeps' = sleeps + 1
           /\ sinceFetch' = Later(sinceFetch, Spacing, Spacing)
           /\ cycleTime' = Later(cycleTime, Spacing, Interval)
           /\ sinceSchedEnd' = IF endScheduled THEN 0
                               ELSE Later(sinceSchedEnd, Spacing, Interval)
           /\ untilNext' = IF endScheduled THEN ScheduleNextRun(untilNext - Spacing)
                           ELSE untilNext - Spacing
           /\ lastLong' = IF endScheduled THEN cycleTime' >= Interval ELSE lastLong
           /\ idx' = IF last THEN idx ELSE idx + 1
           /\ step' = IF last THEN "-" ELSE "fetch"
           /\ inFlight' = IF last THEN inFlight - 1 ELSE inFlight
           /\ pc' = IF ~last THEN pc
                    ELSE IF pc = "poll_initial" THEN "run_pending" ELSE "sleep"
    /\ UNCHANGED << devices, cfgVars, device_status, curDevice, parsed, point,
                    pointBucket, handed, fetchLog, startGap, fetchGap, exitVars >>

\* schedule.run_pending(), line 339: the job runs, in this thread, when due
RunPending ==
    /\ pc = "run_pending"
    /\ IF untilNext <= 0
       THEN /\ pc' = "poll_scheduled"
            /\ BeginCycle
            /\ startGap' = sinceSchedEnd
       ELSE /\ pc' = "sleep"
            /\ UNCHANGED << cycleVars, cycleTime, startGap >>
    /\ UNCHANGED << devices, cfgVars, device_status, curDevice, parsed, point,
                    pointBucket, untilNext, sinceFetch, sinceSchedEnd, lastLong,
                    fetchGap, exitVars >>

\* time.sleep(30), line 340
LoopSleepStep ==
    /\ pc = "sleep"
    /\ pc' = "run_pending"
    /\ untilNext' = untilNext - LoopSleep
    /\ sinceFetch' = Later(sinceFetch, LoopSleep, Spacing)
    /\ sinceSchedEnd' = Later(sinceSchedEnd, LoopSleep, Interval)
    /\ UNCHANGED << devices, cfgVars, device_status, curDevice, parsed, point,
                    pointBucket, cycleVars, startGap, cycleTime, lastLong,
                    fetchGap, exitVars >>

\* KeyboardInterrupt: caught by the handler of lines 341-343 inside the loop
\* of lines 338-340 (close() is called at once), uncaught before it
Interrupt ==
    /\ pc \in { "poll_initial", "poll_scheduled", "run_pending", "sleep" }
    /\ pc' = "exited"
    /\ IF pc = "poll_initial"
       THEN /\ exitHow' = "interrupt_uncaught"
            /\ UNCHANGED << closed, closedMidStep >>
       ELSE /\ exitHow' = "interrupt_caught"
            /\ closed' = TRUE
            /\ closedMidStep' = (pc = "poll_scheduled" /\ step \in { "fetching", "emit" })
    /\ UNCHANGED << devices, cfgVars, device_status, curDevice, parsed, point,
                    pointBucket, cycleVars, timeVars >>

Next ==
    \/ InitialPoll
    \/ FetchCall
    \/ FetchReturn
    \/ EmitOffline
    \/ EmitStatus
    \/ SpacingSleep
    \/ RunPending
    \/ LoopSleepStep
    \/ Interrupt

Spec == Init /\ [][Next]_vars

----------------------------------------------------------------------------
(* Properties of parse_device_status and of the success point *)

Parsed == pc \in { "build_point", "parse_done" }

\* the keys of the first capability shape present, in the order
\* switch:<channel>, relays (with its meters and tmp), cover:0, light:0
FirstShapeKeys(status, channel) ==
    IF ChannelKey(channel) \in DOMAIN status.v THEN { ChannelKey(channel) }
    ELSE IF "relays" \in DOMAIN status.v THEN { "relays", "meters", "tmp" }
    ELSE IF "cover:0" \in DOMAIN status.v THEN { "cover:0" }
    ELSE IF "light:0" \in DOMAIN status.v THEN { "light:0" }
    ELSE {}

HasStatusDict(p) ==
    p.t = "dict" /\ "status" \in DOMAIN p.v /\ p.v["status"].t = "dict"

\* the payload p with only the keys `keys` left in its status
Restrict(p, keys) ==
    Dict([p.v EXCEPT !["status"] =
            Dict([k \in (DOMAIN p.v["status"].v) \cap keys |-> p.v["status"].v[k]])])

\* C6: the metric is read from the first shape present in the order
\* switch:<channel>, relays, cover:0, light:0 alone: the keys of every other
\* shape have no influence on it; a payload with none of the keys yields all
\* defaults; online is true iff the top-level online field equals 1.
DispatchPriority ==
    (Parsed /\ HasStatusDict(device_status)) =>
        LET keys == FirstShapeKeys(device_status.v["status"], ChannelOf(curDevice))
            online == /\ "online" \in DOMAIN device_status.v
                      /\ EqualsOne(device_status.v["online"])
        IN  /\ parsed = ParseDeviceStatus(Restrict(device_status, keys), curDevice)
            /\ keys = {} => parsed = DefaultMetric(online)
            /\ parsed.kind = "ok" => parsed.online = online

\* C6 witness: switch, relays, cover and light keys all present, and the
\* metric carries the switch's readings
DispatchPriorityWitness ==
    /\ pc = "parse_done"
    /\ HasStatusDict(device_status)
    /\ { ChannelKey(ChannelOf(curDevice)), "relays", "meters", "cover:0", "light:0" }
          \subseteq DOMAIN device_status.v["status"].v
    /\ parsed.kind = "ok"
    /\ parsed.power = Num(MaxVal)
    /\ parsed.voltage = Num(0)
    /\ parsed.online

ExplicitNull(d, k) == k \in DOMAIN d.v /\ d.v[k].t = "null"

\* C7: a payload whose numeric sub-fields are present but null never makes
\* the normalizer raise, and a null apower yields power exactly 0.0.
NullSafeExtraction ==
    (Parsed /\ device_status \in NullablePayloads) =>
        /\ parsed.kind = "ok"
        /\ \A k \in { ChannelKey(ChannelOf(curDevice)), "cover:0" } :
              (/\ k \in FirstShapeKeys(device_status.v["status"], ChannelOf(curDevice))
               /\ ExplicitNull(device_status.v["status"].v[k], "apower"))
                  => parsed.power = Num(0)

BaseFields ==
    { "online", "cloud_accessible", "output", "output_int", "power", "energy" }
OptionalFields == { "voltage", "current", "temperature" }

\* C8: a success point has the tags device, device_id, type and exactly the
\* fields online, cloud_accessible=true, output, output_int, power, energy,
\* plus each of voltage / current / temperature iff the metric has it; an
\* absent optional is no field, a present one (0 included) is.
SuccessPointFields ==
    (pc = "parse_done" /\ parsed.kind = "ok") =>
        /\ point.kind = "point"
        /\ DOMAIN point.tags = { "device", "device_id", "type" }
        /\ DOMAIN point.fields =
              BaseFields \cup { k \in OptionalFields : parsed[k].t # "null" }
        /\ point.fields["online"] = Bool(parsed.online)
        /\ point.fields["cloud_accessible"] = Bool(TRUE)
        /\ point.fields["output"] = parsed.output
        /\ point.fields["output_int"] =
              Num(IF parsed.output = Bool(TRUE) THEN 1 ELSE 0)
        /\ point.fields["power"] = parsed.power
        /\ point.fields["energy"] = parsed.energy
        /\ \A k \in OptionalFields \cap DOMAIN point.fields :
              point.fields[k] = parsed[k] /\ point.fields[k].t = "num"

\* C8 witness: a point with voltage 0 as a field and no current field
SuccessPointFieldsWitness ==
    /\ pc = "parse_done"
    /\ parsed.kind = "ok"
    /\ parsed.voltage.t = "num"
    /\ parsed.voltage.v = 0
    /\ parsed.current.t = "null"
    /\ "voltage" \in DOMAIN point.fields
    /\ "current" \notin DOMAIN point.fields
    /\ point.fields["output_int"] = Num(1)

----------------------------------------------------------------------------
(* Properties of the device registry (load_config) *)

Loaded == pc \in { "validate", "configured", "routed" } /\ "devices" \in DOMAIN config

Ids(ds) == [i \in 1 .. Len(ds) |-> ds[i].id]

DeclaredGroups == IF "groups" \in DOMAIN rawConfig THEN rawConfig.groups ELSE <<>>
DeclaredFlat == IF "devices" \in DOMAIN rawConfig THEN rawConfig.devices ELSE <<>>
DeclaredMembers(g) ==
    IF "devices" \in DOMAIN DeclaredGroups[g] THEN DeclaredGroups[g].devices ELSE <<>>

\* every declared place << g, m >>: g = 0 is the flat list
DeclaredIds ==
    { << 0, m >> : m \in 1 .. Len(DeclaredFlat) }
    \cup UNION { { << g, m >> : m \in 1 .. Len(DeclaredMembers(g)) } :
                   g \in 1 .. Len(DeclaredGroups) }

\* place a comes before place b when the groups are taken first, each in
\* declared order, and the flat list (g = 0) last
GroupsFirstBefore(a, b) ==
    \/ a[1] # 0 /\ b[1] = 0
    \/ a[1] # 0 /\ b[1] # 0 /\ a[1] < b[1]
    \/ a[1] = b[1] /\ a[2] < b[2]

\* place a comes before place b when the flat list (g = 0) is taken first and
\* the groups after it, each in declared order
FlatFirstBefore(a, b) == a[1] < b[1] \/ (a[1] = b[1] /\ a[2] < b[2])

EveryDeclaredOnce ==
    /\ Len(config.devices) = Cardinality(DeclaredIds)
    /\ { config.devices[i].id : i \in 1 .. Len(config.devices) } = DeclaredIds

DeclaredAt(id) ==
    IF id[1] = 0 THEN DeclaredFlat[id[2]] ELSE DeclaredMembers(id[1])[id[2]]

\* device > group > global default
PrecedenceBucket(id) ==
    IF "bucket" \in DOMAIN DeclaredAt(id) THEN DeclaredAt(id).bucket
    ELSE IF /\ id[1] # 0
            /\ "bucket" \in DOMAIN DeclaredGroups[id[1]]
            /\ DeclaredGroups[id[1]].bucket # ""
         THEN DeclaredGroups[id[1]].bucket
    ELSE DefaultBucket

\* C4: the bucket a device's point is written to is the device's own declared
\* bucket if it has one, else the enclosing group's if the group declares
\* one, else the default bucket.
BucketPrecedence ==
    pc = "routed" => pointBucket = PrecedenceBucket(curDevice.id)

----------------------------------------------------------------------------
(* Properties of the polling process *)

\* C1: no device-level failure (failed fetch, error raised while normalizing,
\* failed write of the offline or of the success point) leaves the device's
\* step: poll_all_devices never raises to its caller.
CycleAbsorbsFailures ==
    ~(pc = "exited" /\ exitHow = "exception")

OfflineFields == [online |-> Bool(FALSE), cloud_accessible |-> Bool(FALSE)]

\* C2: when a device's step is over, exactly one point has been handed to the
\* write operation for it; after a failed fetch or an element that is empty
\* or not of the expected shape, that point carries exactly online=false and
\* cloud_accessible=false.
OnePointPerDevice ==
    step = "spacing" =>
        /\ handed = 1
        /\ (device_status.t = "null" \/ parsed.kind # "ok") =>
              (point.kind = "point" /\ point.fields = OfflineFields)

\* C5: a cycle over N devices makes exactly N fetch calls, in the order of
\* the device list, takes the spacing sleep after every one of them, and no
\* fetch call begins less than 1.1 s after the one before it.
FullCycleFetches ==
    /\ Len(fetchLog) <= Len(devices)
    /\ fetchLog = SubSeq(Ids(devices), 1, Len(fetchLog))
    /\ fetchGap >= Spacing
    /\ (pc \in { "run_pending", "sleep" } \/ exitHow = "exception") =>
          (fetchLog = Ids(devices) /\ sleeps = Len(devices))

\* C9: at most one poll cycle is in flight, and a scheduled cycle starts only
\* when a full interval has passed since the scheduled cycle before it ended:
\* the triggers that fell due during a cycle start no cycle of their own.
SingleCycleNoQueue ==
    /\ inFlight <= 1
    /\ Polling => inFlight = 1
    /\ pc \in { "start", "run_pending", "sleep" } => inFlight = 0
    /\ startGap >= Interval

\* C9 witness: a scheduled cycle is running, the scheduled cycle before it
\* lasted longer than the interval
SingleCycleNoQueueWitness ==
    /\ pc = "poll_scheduled"
    /\ lastLong
    /\ inFlight = 1
    /\ step = "emit"

\* C10: a shutdown by interrupt, wherever it arrives, closes the storage
\* connection, and never while a device's step is under way.
ShutdownClosesStorage ==
    (pc = "exited" /\ exitHow \in { "interrupt_caught", "interrupt_uncaught" }) =>
        (closed /\ ~closedMidStep)

====
